---- MODULE Spec2Model ----
(***************************************************************************)
(* Model of the pathway-enrichment report task (src/wf/__init__.py).       *)
(*                                                                         *)
(* Text is modelled as a sequence of one-character strings, so that the    *)
(* splitting, prefix and suffix operations of the code act on characters.  *)
(* A missing attribute (Python's None where text is expected) is None, a   *)
(* missing element or dict is NoObject.  A dict is a sequence of [k, v]    *)
(* records in insertion order (Python dicts keep insertion order).         *)
(***************************************************************************)
EXTENDS Integers, Sequences, FiniteSets, TLC

VARIABLES
    \* parse_gene_groups
    pathway, contrast_genes, species, pathview_image_width, xmldoc,
    i, stage, genes, view, gene_groups,
    \* js_injectable
    data, injected,
    \* parse_kegg_pathway_table
    table_rows, pathways,
    \* pathway_to_genesets_mapping
    genesets_file, relevant_pathway_ids, current, split, pathway_ids, entrez_ids, gene_names, mapping,
    gs_pc,
    \* go_pathway
    pc, files, returncode, stdout, messages, error, run_pathways, kegg_data, files_read, report,
    pathviews

loopVars == <<pathway, contrast_genes, species, pathview_image_width, xmldoc,
              i, stage, genes, view, gene_groups>>

jsVars == <<data, injected>>

tableVars == <<table_rows, pathways>>

gsVars == <<genesets_file, relevant_pathway_ids, current, split, pathway_ids, entrez_ids,
            gene_names, mapping, gs_pc>>

runVars == <<pc, files, returncode, stdout, messages, error, run_pathways, kegg_data, files_read,
             report, pathviews>>

vars == <<loopVars, jsVars, tableVars, gsVars, runVars>>

None == <<"None">>

NoObject == [absent |-> TRUE]

(***************************************************************************)
(* Bounds of the model.                                                    *)
(***************************************************************************)
MaxTokens == 2
MaxEntries == 2
MaxStrLen == 2
MaxItems == 2
MaxRows == 2
MaxSections == 3
MaxPathways == 2

(***************************************************************************)
(* Characters and words used to build the inputs.                          *)
(***************************************************************************)
SP == <<" ">>
COLON == <<":">>
COMMA_SP == <<",", " ">>
ELLIPSIS == <<".", ".", ".">>
SymA == <<"A">>
SymB == <<"B">>
SymC == <<"C">>
Id1 == <<"1">>
Id2 == <<"2">>

(***************************************************************************)
(* Python str operations on character sequences.                           *)
(***************************************************************************)
Drop(s, n) == SubSeq(s, n + 1, Len(s))

Take(s, n) == SubSeq(s, 1, n)

StartsWith(s, p) == Len(s) >= Len(p) /\ Take(s, Len(p)) = p

EndsWith(s, p) == Len(s) >= Len(p) /\ Drop(s, Len(s) - Len(p)) = p

RemovePrefix(s, p) == IF StartsWith(s, p) THEN Drop(s, Len(p)) ELSE s

RemoveSuffix(s, p) == IF EndsWith(s, p) THEN Take(s, Len(s) - Len(p)) ELSE s

\* Positions (0-based offsets) at which sep occurs in s.
Occurrences(s, sep) == {k \in 0..(Len(s) - Len(sep)) : SubSeq(s, k + 1, k + Len(sep)) = sep}

RECURSIVE SplitBy(_, _)
\* str.split(sep): cut at the leftmost occurrence of sep, then split the rest.
SplitBy(s, sep) ==
    IF Occurrences(s, sep) = {} THEN <<s>>
    ELSE LET k == CHOOSE m \in Occurrences(s, sep) : \A n \in Occurrences(s, sep) : m <= n
         IN  <<Take(s, k)>> \o SplitBy(Drop(s, k + Len(sep)), sep)

RECURSIVE JoinBy(_, _)
\* sep.join(parts): how the files read by the task are written.
JoinBy(parts, sep) ==
    IF Len(parts) = 0 THEN <<>>
    ELSE IF Len(parts) = 1 THEN parts[1]
    ELSE parts[1] \o sep \o JoinBy(Tail(parts), sep)

(***************************************************************************)
(* Python dict operations on insertion-ordered [k, v] sequences.           *)
(***************************************************************************)
Keys(d) == {d[n].k : n \in 1..Len(d)}

Lookup(d, key) == d[CHOOSE n \in 1..Len(d) : d[n].k = key].v

\* d[key] = val: an existing key keeps its position and takes the new value.
DictSet(d, key, val) ==
    IF key \in Keys(d)
    THEN [n \in 1..Len(d) |-> IF d[n].k = key THEN [k |-> key, v |-> val] ELSE d[n]]
    ELSE Append(d, [k |-> key, v |-> val])

Min(a, b) == IF a <= b THEN a ELSE b

RECURSIVE DictZipFrom(_, _, _, _)
DictZipFrom(d, ks, vs, n) ==
    IF n > Min(Len(ks), Len(vs)) THEN d
    ELSE DictZipFrom(DictSet(d, ks[n], vs[n]), ks, vs, n + 1)

\* dict(zip(ks, vs)): pairs up to the shorter list, a later pair overwrites.
DictZip(ks, vs) == DictZipFrom(<<>>, ks, vs, 1)

(***************************************************************************)
(* Species and its KEGG organism code.                                     *)
(***************************************************************************)
Species == {"HUMAN", "MOUSE", "YEAST", "RAT"}

species_2_kegg ==
    [s \in Species |-> CASE s = "HUMAN" -> <<"h", "s", "a">>
                         [] s = "MOUSE" -> <<"m", "m", "u">>
                         [] s = "YEAST" -> <<"s", "c", "e">>
                         [] s = "RAT"   -> <<"r", "n", "o">>]

PATHVIEW_IMAGE_WIDTH == 800

(***************************************************************************)
(* Floats are modelled as exact fractions [n, d] in lowest terms, d > 0.    *)
(***************************************************************************)
Abs(n) == IF n < 0 THEN -n ELSE n

RECURSIVE GCD(_, _)
GCD(a, b) == IF b = 0 THEN a ELSE GCD(b, a % b)

\* The fraction n/d in lowest terms, d > 0.
Frac(n, d) ==
    LET g == GCD(Abs(n), Abs(d))
        sign == IF d < 0 THEN -1 ELSE 1
    IN  [n |-> sign * (n \div g), d |-> sign * (d \div g)]

FMul(a, b) == Frac(a.n * b.n, a.d * b.d)

FDiv(a, b) == Frac(a.n * b.d, a.d * b.n)

FSub(a, b) == Frac(a.n * b.d - b.n * a.d, a.d * b.d)

(***************************************************************************)
(* make_gene_annotation_view_rect                                          *)
(***************************************************************************)
ScaledAttr(graphics, a, scale) == FMul(Frac(graphics[a], 1), scale)

\* Mutant: the test of the shape type is lost.
IsLineNever(graphics) == FALSE

IsLine(graphics) == graphics.type = "line"

\* Mutant: the centre is shifted by half of the native, unscaled size.
ViewRectNativeShift(image_width, graphics) ==
    LET scale == FDiv(Frac(PATHVIEW_IMAGE_WIDTH, 1), Frac(image_width, 1))
    IN  IF IsLine(graphics) THEN NoObject
        ELSE [x |-> FSub(ScaledAttr(graphics, "x", scale), Frac(graphics.width, 2)),
              y |-> FSub(ScaledAttr(graphics, "y", scale), Frac(graphics.height, 2)),
              width |-> ScaledAttr(graphics, "width", scale),
              height |-> ScaledAttr(graphics, "height", scale)]

make_gene_annotation_view_rect(image_width, graphics) ==
    LET scale == FDiv(Frac(PATHVIEW_IMAGE_WIDTH, 1), Frac(image_width, 1))
    IN  IF IsLine(graphics) THEN NoObject
        ELSE LET x == ScaledAttr(graphics, "x", scale)
                 y == ScaledAttr(graphics, "y", scale)
                 width == ScaledAttr(graphics, "width", scale)
                 height == ScaledAttr(graphics, "height", scale)
             IN  [x |-> FSub(x, FDiv(width, Frac(2, 1))),
                  y |-> FSub(y, FDiv(height, Frac(2, 1))),
                  width |-> width,
                  height |-> height]

(***************************************************************************)
(* parse_gene_groups: the body of the loop over the XML entries.           *)
(***************************************************************************)
entrez_id_to_gene(p) == DictZip(p.core_entrez_ids, p.core_enriched_genes)

SpeciesPrefix(sp) == species_2_kegg[sp] \o COLON

\* One iteration of the loop over raw_names.split(" ").
CoreStep(g, name, sp, table) ==
    IF ~StartsWith(name, SpeciesPrefix(sp)) THEN g
    ELSE LET entrez_id == RemovePrefix(name, SpeciesPrefix(sp))
         IN  IF entrez_id \notin Keys(table) THEN g
             ELSE DictSet(g, Lookup(table, entrez_id), TRUE)

RECURSIVE CoreLoop(_, _, _, _)
CoreLoop(g, names, sp, table) ==
    IF Len(names) = 0 THEN g
    ELSE CoreLoop(CoreStep(g, Head(names), sp, table), Tail(names), sp, table)

\* Mutant: the marker "..." is left on the last token.
GraphicsGenesKeepMarker(graphics_raw_genes) == SplitBy(graphics_raw_genes, COMMA_SP)

graphics_genes(graphics_raw_genes) == SplitBy(RemoveSuffix(graphics_raw_genes, ELLIPSIS), COMMA_SP)

\* Mutant: a contrast gene overwrites a mark already in the dict.
GraphicsStepOverwrite(g, new_gene, contrast) ==
    IF new_gene \in contrast THEN DictSet(g, new_gene, FALSE) ELSE g

\* One iteration of the loop over graphics_genes.
GraphicsStep(g, new_gene, contrast) ==
    IF new_gene \in contrast /\ new_gene \notin Keys(g)
    THEN DictSet(g, new_gene, FALSE)
    ELSE g

RECURSIVE GraphicsLoop(_, _, _)
GraphicsLoop(g, names, contrast) ==
    IF Len(names) = 0 THEN g
    ELSE GraphicsLoop(GraphicsStep(g, Head(names), contrast), Tail(names), contrast)

\* The dict "genes" of one entry, after both loops.
BuildGenes(entry, p, contrast, sp) ==
    LET core == CoreLoop(<<>>, SplitBy(entry.name, SP), sp, entrez_id_to_gene(p))
    IN  IF entry.graphics.name = None THEN core
        ELSE GraphicsLoop(core, graphics_genes(entry.graphics.name), contrast)

\* The three "continue" tests at the head of the loop body.
Qualifies(entry) == entry.type = "gene" /\ entry.name # None /\ entry.graphics # NoObject

\* Mutant: the test for an empty dict is lost.
NoGenesNever(g) == FALSE

NoGenes(g) == Len(g) = 0

Truthy(v) == v # NoObject

AnyCore(g) == \E n \in 1..Len(g) : g[n].v

Group(v, g) ==
    [view |-> v,
     core |-> AnyCore(g),
     genes |-> [n \in 1..Len(g) |-> [name |-> g[n].k, core |-> g[n].v]]]

\* What one entry adds to gene_groups.
GroupsOfEntry(entry, p, contrast, sp, image_width) ==
    IF ~Qualifies(entry) THEN <<>>
    ELSE LET g == BuildGenes(entry, p, contrast, sp)
         IN  IF NoGenes(g) THEN <<>>
             ELSE LET v == make_gene_annotation_view_rect(image_width, entry.graphics)
                  IN  IF Truthy(v) THEN <<Group(v, g)>> ELSE <<>>

RECURSIVE parse_gene_groups(_, _, _, _, _)
\* The whole function on a document: the groups of its entries, in order.
parse_gene_groups(doc, p, contrast, sp, image_width) ==
    IF Len(doc) = 0 THEN <<>>
    ELSE GroupsOfEntry(Head(doc), p, contrast, sp, image_width)
             \o parse_gene_groups(Tail(doc), p, contrast, sp, image_width)

(***************************************************************************)
(* Inputs of parse_gene_groups.                                            *)
(***************************************************************************)
RECURSIVE SeqsUpTo(_, _)
SeqsUpTo(S, n) ==
    IF n = 0 THEN {<<>>}
    ELSE SeqsUpTo(S, n - 1) \cup {Append(q, e) : q \in SeqsUpTo(S, n - 1), e \in S}

\* The last one has an id twice and more ids than symbols.
Pathways ==
    {[core_entrez_ids |-> <<Id1, Id2>>, core_enriched_genes |-> <<SymA, SymB>>],
     [core_entrez_ids |-> <<Id1>>, core_enriched_genes |-> <<SymA>>],
     [core_entrez_ids |-> <<Id1, Id1, Id2>>, core_enriched_genes |-> <<SymA, SymB>>]}

ContrastSets == {{}, {SymA, SymB}, {SymA, SymB, SymC}}

ImageWidths == {400, 1000}

NameTokens == {<<"h", "s", "a">> \o COLON \o Id1,
               <<"h", "s", "a">> \o COLON \o Id2,
               <<"m", "m", "u">> \o COLON \o Id1}

EntryNames == {JoinBy(t, SP) : t \in SeqsUpTo(NameTokens, MaxTokens)} \cup {None}

DisplayLists == {JoinBy(t, COMMA_SP) : t \in SeqsUpTo({SymA, SymB, SymC}, MaxTokens) \ {<<>>}}

GraphicsNames == DisplayLists \cup {t \o ELLIPSIS : t \in DisplayLists} \cup {None}

Shapes ==
    {[type |-> "rectangle", x |-> 100, y |-> 50, width |-> 46, height |-> 17],
     [type |-> "circle", x |-> 7, y |-> 9, width |-> 3, height |-> 5],
     [type |-> "line", x |-> 100, y |-> 50, width |-> 46, height |-> 17]}

GraphicsOf(shape, name) ==
    [type |-> shape.type, name |-> name,
     x |-> shape.x, y |-> shape.y, width |-> shape.width, height |-> shape.height]

Hsa1 == <<"h", "s", "a">> \o COLON \o Id1

Hsa2 == <<"h", "s", "a">> \o COLON \o Id2

RectShape == [type |-> "rectangle", x |-> 100, y |-> 50, width |-> 46, height |-> 17]

LineShape == [type |-> "line", x |-> 100, y |-> 50, width |-> 46, height |-> 17]

\* name "hsa:1 hsa:2" with graphics name "A, B, C...".
ScenarioEntry ==
    [type |-> "gene", name |-> JoinBy(<<Hsa1, Hsa2>>, SP),
     graphics |-> GraphicsOf(RectShape, JoinBy(<<SymA, SymB, SymC>>, COMMA_SP) \o ELLIPSIS)]

\* The single-entry documents range over these.
RichEntries ==
    {[type |-> "gene", name |-> n, graphics |-> GraphicsOf(RectShape, g)] :
        n \in EntryNames, g \in GraphicsNames}
    \cup {ScenarioEntry,
          [type |-> "gene", name |-> Hsa1, graphics |-> GraphicsOf(LineShape, SymA \o ELLIPSIS)],
          [type |-> "gene", name |-> Hsa1, graphics |-> NoObject],
          [type |-> "ortholog", name |-> Hsa1, graphics |-> GraphicsOf(RectShape, SymA)]}

\* A few entries of each kind: the multi-entry documents range over these.
DocEntries ==
    {[type |-> "gene", name |-> Hsa1, graphics |-> GraphicsOf(s, SymA \o COMMA_SP \o SymB \o ELLIPSIS)] :
        s \in Shapes}
    \cup {[type |-> "gene", name |-> <<>>, graphics |-> GraphicsOf(s, SymC)] : s \in Shapes}
    \cup {[type |-> "ortholog", name |-> Hsa1, graphics |-> GraphicsOf(RectShape, SymA)],
          [type |-> "gene", name |-> None, graphics |-> NoObject]}

InitLoop ==
    /\ pathway \in Pathways
    /\ contrast_genes \in ContrastSets
    /\ i = 0
    /\ stage = "start"
    /\ genes = <<>>
    /\ view = NoObject
    /\ gene_groups = <<>>

InitEntry ==
    /\ xmldoc \in {<<e>> : e \in RichEntries}
    /\ species = "HUMAN"
    /\ pathview_image_width = 1000
    /\ InitLoop

InitGroups ==
    /\ xmldoc \in SeqsUpTo(DocEntries, MaxEntries)
    /\ species \in {"HUMAN", "MOUSE"}
    /\ pathview_image_width \in ImageWidths
    /\ InitLoop

\* parse_gene_groups is not running.
IdleLoop ==
    /\ xmldoc = <<>>
    /\ pathway = [core_entrez_ids |-> <<>>, core_enriched_genes |-> <<>>]
    /\ contrast_genes = {}
    /\ species = "HUMAN"
    /\ pathview_image_width = PATHVIEW_IMAGE_WIDTH
    /\ i = 0
    /\ stage = "start"
    /\ genes = <<>>
    /\ view = NoObject
    /\ gene_groups = <<>>

(***************************************************************************)
(* parse_gene_groups: one action per way through the loop body.            *)
(***************************************************************************)
inputs == <<pathway, contrast_genes, species, pathview_image_width, xmldoc>>

\* type is not "gene", or no name attribute, or no graphics child: continue.
entry_skipped ==
    /\ i < Len(xmldoc)
    /\ ~Qualifies(xmldoc[i + 1])
    /\ i' = i + 1
    /\ stage' = "skipped"
    /\ UNCHANGED <<inputs, genes, view, gene_groups, jsVars, tableVars, gsVars, runVars>>

\* len(genes) == 0: continue.
entry_dropped ==
    /\ i < Len(xmldoc)
    /\ Qualifies(xmldoc[i + 1])
    /\ LET g == BuildGenes(xmldoc[i + 1], pathway, contrast_genes, species)
       IN  /\ NoGenes(g)
           /\ genes' = g
    /\ i' = i + 1
    /\ stage' = "dropped"
    /\ UNCHANGED <<inputs, view, gene_groups, jsVars, tableVars, gsVars, runVars>>

\* The view is computed and, if it is truthy, the group is appended.
entry_viewed ==
    /\ i < Len(xmldoc)
    /\ Qualifies(xmldoc[i + 1])
    /\ LET g == BuildGenes(xmldoc[i + 1], pathway, contrast_genes, species)
           v == make_gene_annotation_view_rect(pathview_image_width, xmldoc[i + 1].graphics)
       IN  /\ ~NoGenes(g)
           /\ genes' = g
           /\ view' = v
           /\ gene_groups' = IF Truthy(v) THEN Append(gene_groups, Group(v, g)) ELSE gene_groups
    /\ i' = i + 1
    /\ stage' = "viewed"
    /\ UNCHANGED <<inputs, jsVars, tableVars, gsVars, runVars>>

NextLoop == entry_skipped \/ entry_dropped \/ entry_viewed

(***************************************************************************)
(* js_injectable: json.dumps, then every double quote gets a backslash.    *)
(* A JSON value is a string, a list of values or a dict from strings to    *)
(* values.                                                                 *)
(***************************************************************************)
QUOTE == <<"\"">>
BACKSLASH == <<"\\">>

StrV(s) == [t |-> "str", s |-> s]

ListV(items) == [t |-> "list", items |-> items]

DictV(items) == [t |-> "dict", items |-> items]

\* json.dumps of one character of a string.
EscapeChar(c) ==
    IF <<c>> = QUOTE THEN BACKSLASH \o QUOTE
    ELSE IF <<c>> = BACKSLASH THEN BACKSLASH \o BACKSLASH
    ELSE <<c>>

RECURSIVE EscapeChars(_)
EscapeChars(s) == IF Len(s) = 0 THEN <<>> ELSE EscapeChar(Head(s)) \o EscapeChars(Tail(s))

DumpStr(s) == QUOTE \o EscapeChars(s) \o QUOTE

RECURSIVE json_dumps(_)
json_dumps(v) ==
    CASE v.t = "str" -> DumpStr(v.s)
      [] v.t = "list" ->
            <<"[">> \o JoinBy([n \in 1..Len(v.items) |-> json_dumps(v.items[n])], COMMA_SP) \o <<"]">>
      [] v.t = "dict" ->
            <<"{">>
            \o JoinBy([n \in 1..Len(v.items) |->
                          DumpStr(v.items[n].k) \o <<":", " ">> \o json_dumps(v.items[n].v)],
                      COMMA_SP)
            \o <<"}">>

\* str.replace('"', '\\"')
EscapeQuote(c) == IF <<c>> = QUOTE THEN BACKSLASH \o QUOTE ELSE <<c>>

RECURSIVE ReplaceQuotes(_)
ReplaceQuotes(text) ==
    IF Len(text) = 0 THEN <<>> ELSE EscapeQuote(Head(text)) \o ReplaceQuotes(Tail(text))

js_injectable(d) == ReplaceQuotes(json_dumps(d))

Alphabet == {"a", "\"", "\\"}

Strings == SeqsUpTo(Alphabet, MaxStrLen)

JsonValues ==
    {StrV(s) : s \in Strings}
    \cup {ListV(q) : q \in SeqsUpTo({StrV(s) : s \in Strings}, MaxItems)}
    \cup {DictV(<<[k |-> key, v |-> StrV(s)]>>) : key \in Strings, s \in Strings}

InitJs == data \in JsonValues /\ injected = None

IdleJs == data = StrV(<<>>) /\ injected = None

inject ==
    /\ injected = None
    /\ injected' = js_injectable(data)
    /\ UNCHANGED <<data, loopVars, tableVars, gsVars, runVars>>

NextJs == inject

(***************************************************************************)
(* parse_kegg_pathway_table: one Pathway per row of the table.             *)
(***************************************************************************)
\* f"{text:.n}": the precision of a format spec cuts a string to n characters.
FormatPrecision(text, n) == Take(text, Min(n, Len(text)))

Digit(n) == <<"0", "1", "2", "3", "4", "5", "6", "7", "8", "9">>[n + 1]

RECURSIVE IntStr(_)
\* str(n) for n >= 0
IntStr(n) == IF n < 10 THEN <<Digit(n)>> ELSE IntStr(n \div 10) \o <<Digit(n % 10)>>

SLASH == <<"/">>

\* Mutant: the ids are split at spaces, like the symbols.
SplitIdsAtSpaces(text) == SplitBy(text, SP)

SplitIds(text) == SplitBy(text, SLASH)

SplitGeneNames(text) == SplitBy(text, SP)

PathwayOfRow(row) ==
    LET row_gene_names == SplitGeneNames(row.coreEnrichedGenes)
    IN  [kegg_id |-> row.ID,
         name |-> row.Description,
         p_value |-> FormatPrecision(row.pvalue, 3),
         p_adjusted_value |-> FormatPrecision(row.padjust, 3),
         enrichment_score |-> FormatPrecision(row.enrichmentScore, 6),
         normalized_enrichment_score |-> FormatPrecision(row.NES, 6),
         gene_set_size |-> row.setSize,
         leading_edge_size |-> IntStr(Len(row_gene_names)),
         core_enriched_genes |-> row_gene_names,
         core_entrez_ids |-> SplitIds(row.coreEntrezIDs)]

\* The two list columns of a row, as written to the table.
GeneFields == {JoinBy(t, SP) : t \in {<<>>, <<SymA>>, <<SymA, SymB>>, <<SymB, SymA, SymC>>}}

IdFields == {JoinBy(t, SLASH) : t \in {<<>>, <<Id1>>, <<Id1, Id2>>, <<Id2, Id1, Id1>>}}

Rows ==
    {[ID |-> <<"h", "s", "a", "0", "1">>,
      Description |-> <<"G", "l", "y", "c", "o", "l", "y", "s", "i", "s">>,
      pvalue |-> <<"0", ".", "0", "0", "1", "2">>,
      padjust |-> <<"0", ".", "0", "3">>,
      enrichmentScore |-> <<"-", "0", ".", "6", "1", "2", "3", "4">>,
      NES |-> <<"-", "1", ".", "9">>,
      setSize |-> <<"1", "2">>,
      coreEnrichedGenes |-> g,
      coreEntrezIDs |-> e] : g \in GeneFields, e \in IdFields}

InitTable == table_rows \in SeqsUpTo(Rows, MaxRows) /\ pathways = <<>>

IdleTable == table_rows = <<>> /\ pathways = <<>>

\* One turn of the loop over csv.DictReader(f).
read_row ==
    /\ Len(pathways) < Len(table_rows)
    /\ pathways' = Append(pathways, PathwayOfRow(table_rows[Len(pathways) + 1]))
    /\ UNCHANGED <<table_rows, loopVars, jsVars, gsVars, runVars>>

NextTable == read_row

(***************************************************************************)
(* pathway_to_genesets_mapping: the gene-set file, line by line.           *)
(***************************************************************************)
NL == <<"\n">>
PATHWAYIDS == <<"P", "A", "T", "H", "W", "A", "Y", "I", "D", "S">>
ENTREZIDS == <<"E", "N", "T", "R", "E", "Z", "I", "D", "S">>
NAMES == <<"N", "A", "M", "E", "S">>

IsSpace(c) == c \in {" ", "\n", "\t", "\r"}

RECURSIVE LStrip(_)
LStrip(text) == IF Len(text) > 0 /\ IsSpace(Head(text)) THEN LStrip(Tail(text)) ELSE text

RECURSIVE RStrip(_)
RStrip(text) ==
    IF Len(text) > 0 /\ IsSpace(text[Len(text)]) THEN RStrip(Take(text, Len(text) - 1)) ELSE text

\* str.strip()
Strip(text) == RStrip(LStrip(text))

\* The loop variables before the first line.
ReadStart ==
    [current |-> None, split |-> None, pathway_ids |-> <<>>, entrez_ids |-> <<>>, gene_names |-> <<>>]

\* current.append(data), current being one of the three lists.
AppendTo(st, item) ==
    CASE st.current = PATHWAYIDS -> [st EXCEPT !.pathway_ids = Append(@, item)]
      [] st.current = ENTREZIDS -> [st EXCEPT !.entrez_ids = Append(@, item)]
      [] st.current = NAMES -> [st EXCEPT !.gene_names = Append(@, item)]

StoreLine(st, line) ==
    AppendTo(st, IF st.split = <<TRUE>> THEN SplitBy(Strip(line), SP) ELSE Strip(line))

\* Mutant: a header line switches the list and is stored in it as well.
ReadLineKeepHeader(st, line) ==
    IF StartsWith(line, PATHWAYIDS)
    THEN StoreLine([st EXCEPT !.current = PATHWAYIDS, !.split = <<FALSE>>], line)
    ELSE IF StartsWith(line, ENTREZIDS)
    THEN StoreLine([st EXCEPT !.current = ENTREZIDS, !.split = <<TRUE>>], line)
    ELSE IF StartsWith(line, NAMES)
    THEN StoreLine([st EXCEPT !.current = NAMES, !.split = <<TRUE>>], line)
    ELSE IF st.current # None THEN StoreLine(st, line)
    ELSE st

\* One turn of the loop over f.readlines().
ReadLine(st, line) ==
    IF StartsWith(line, PATHWAYIDS) THEN [st EXCEPT !.current = PATHWAYIDS, !.split = <<FALSE>>]
    ELSE IF StartsWith(line, ENTREZIDS) THEN [st EXCEPT !.current = ENTREZIDS, !.split = <<TRUE>>]
    ELSE IF StartsWith(line, NAMES) THEN [st EXCEPT !.current = NAMES, !.split = <<TRUE>>]
    ELSE IF st.current # None THEN StoreLine(st, line)
    ELSE st

RECURSIVE ReadLines(_, _)
ReadLines(st, lines) ==
    IF Len(lines) = 0 THEN st ELSE ReadLines(ReadLine(st, Head(lines)), Tail(lines))

\* zip(a, b): pairs up to the shorter list.
Zip(a, b) == [n \in 1..Min(Len(a), Len(b)) |-> <<a[n], b[n]>>]

\* {k: v for k, v in mapping.items() if k in relevant_pathway_ids}
FilterKeys(d, keep) == SelectSeq(d, LAMBDA kv : kv.k \in keep)

LineA == <<"a">> \o NL

LineBC == <<" ", "b", " ", "c">> \o NL

DataRuns == {<<>>, <<LineA, LineA>>, <<LineA, LineBC>>}

\* A header line and the lines that follow it up to the next header.
Sections == {<<h \o NL>> \o run : h \in {PATHWAYIDS, ENTREZIDS, NAMES}, run \in DataRuns}

RECURSIVE Concat(_)
Concat(parts) == IF Len(parts) = 0 THEN <<>> ELSE Head(parts) \o Concat(Tail(parts))

GenesetFiles ==
    {lead \o Concat(q) : lead \in {<<>>, <<LineA>>}, q \in SeqsUpTo(Sections, MaxSections)}

InitGenesets ==
    /\ genesets_file \in GenesetFiles \ {<<>>}
    /\ relevant_pathway_ids \in {{<<"a">>}, {<<"a">>, <<"b", " ", "c">>}}
    /\ current = None
    /\ split = None
    /\ pathway_ids = <<>>
    /\ entrez_ids = <<>>
    /\ gene_names = <<>>
    /\ mapping = NoObject
    /\ gs_pc = "open"

IdleGenesets ==
    /\ genesets_file = <<>>
    /\ relevant_pathway_ids = {}
    /\ current = None
    /\ split = None
    /\ pathway_ids = <<>>
    /\ entrez_ids = <<>>
    /\ gene_names = <<>>
    /\ mapping = NoObject
    /\ gs_pc = "open"

\* The with block: every line of the file is read.
read_genesets ==
    /\ gs_pc = "open"
    /\ gs_pc' = "read"
    /\ LET st == ReadLines(ReadStart, genesets_file)
       IN  /\ current' = st.current
           /\ split' = st.split
           /\ pathway_ids' = st.pathway_ids
           /\ entrez_ids' = st.entrez_ids
           /\ gene_names' = st.gene_names
    /\ UNCHANGED <<genesets_file, relevant_pathway_ids, mapping, loopVars, jsVars, tableVars, runVars>>

\* The zip of the three lists, filtered to the relevant ids.
build_mapping ==
    /\ gs_pc = "read"
    /\ gs_pc' = "returned"
    /\ mapping' = [items |-> FilterKeys(DictZip(pathway_ids, Zip(entrez_ids, gene_names)),
                                        relevant_pathway_ids)]
    /\ UNCHANGED <<genesets_file, relevant_pathway_ids, current, split, pathway_ids, entrez_ids,
                   gene_names, loopVars, jsVars, tableVars, runVars>>

NextGenesets == read_genesets \/ build_mapping

(***************************************************************************)
(* go_pathway: the task, from the R script to the report.  The output of   *)
(* the script is a sequence of words: the four markers and plain text.     *)
(***************************************************************************)
ERROR_START == "__LATCH_ERROR_START__"
ERROR_END == "__LATCH_ERROR_END__"
WARNING_START == "__LATCH_WARNING_START__"
WARNING_END == "__LATCH_WARNING_END__"

\* Where a match of START(.*?)END can begin: a START with an END after it.
MatchStarts(text, start, end) ==
    {m \in 1..Len(text) : text[m] = start /\ \E n \in (m + 1)..Len(text) : text[n] = end}

RECURSIVE FindAll(_, _, _)
\* re.findall of the non-greedy pattern: leftmost START, nearest END, then on.
FindAll(text, start, end) ==
    IF MatchStarts(text, start, end) = {} THEN <<>>
    ELSE LET m == CHOOSE a \in MatchStarts(text, start, end) :
                      \A b \in MatchStarts(text, start, end) : a <= b
             n == CHOOSE a \in (m + 1)..Len(text) :
                      text[a] = end /\ \A b \in (m + 1)..(a - 1) : text[b] # end
         IN  <<SubSeq(text, m + 1, n - 1)>> \o FindAll(Drop(text, n), start, end)

\* The messages sent by emit_messages(pattern, message_type, stdout_logs).
emit_messages(start, end, message_type, stdout_logs) ==
    LET found == FindAll(stdout_logs, start, end)
    IN  [n \in 1..Len(found) |->
            [type |-> message_type,
             title |-> <<"Pathway enrichment analysis", message_type>>,
             body |-> found[n]]]

\* str(n) for any integer n
SignedIntStr(n) == IF n < 0 THEN <<"-">> \o IntStr(-n) ELSE IntStr(n)

FailedPrefix ==
    <<"R", " ", "s", "c", "r", "i", "p", "t", " ", "f", "a", "i", "l", "e", "d", " ",
      "w", "i", "t", "h", " ", "e", "x", "i", "t", " ", "c", "o", "d", "e", " ", "'">>

RuntimeError(code) ==
    [type |-> "RuntimeError", message |-> FailedPrefix \o SignedIntStr(code) \o <<"'">>]

FileNotFoundError(file) == [type |-> "FileNotFoundError", file |-> file]

\* The files the task reads after the script has run.
TABLE == "./res/KEGG/table.csv"
CONTRAST == "contrast_csv"
PATHVIEW == "pathview.png"
XML == "xml"
GENESETS == "/root/tempres/genesets.txt"

KeggKeys == {"pathwayIdToGeneSets", "pathwayIdToGeneGroups", "pathwayData", "contrastData", "pathviews"}

ReturnCodes == {0, 1, 2, -9}

Outputs ==
    {<<>>,
     <<"text">>,
     <<ERROR_START, "e1", ERROR_END>>,
     <<"text", WARNING_START, "w1", WARNING_END>>,
     <<WARNING_START, "w1", WARNING_END, ERROR_START, "e1", "\n", "e2", ERROR_END, "text">>,
     <<ERROR_START, "e1", ERROR_START, "e2", ERROR_END, ERROR_END>>,
     <<ERROR_START, "e1", WARNING_START, "w1", ERROR_END, WARNING_END, WARNING_START, "w2">>}

InitRun ==
    /\ pc = "start"
    /\ files \in SUBSET {TABLE, CONTRAST, PATHVIEW, XML, GENESETS}
    /\ run_pathways \in 0..MaxPathways
    /\ returncode = 0
    /\ stdout = <<>>
    /\ messages = <<>>
    /\ error = NoObject
    /\ kegg_data = NoObject
    /\ files_read = {}
    /\ report = NoObject
    /\ pathviews = 0

IdleRun ==
    /\ pc = "start"
    /\ files = {}
    /\ run_pathways = 0
    /\ returncode = 0
    /\ stdout = <<>>
    /\ messages = <<>>
    /\ error = NoObject
    /\ kegg_data = NoObject
    /\ files_read = {}
    /\ report = NoObject
    /\ pathviews = 0

idle == <<loopVars, jsVars, tableVars, gsVars>>

\* run_rscript: the script runs to its end, its output is captured.
run_and_capture_output ==
    /\ pc = "start"
    /\ \E code \in ReturnCodes, out \in Outputs :
          /\ returncode' = code
          /\ stdout' = out
    /\ pc' = "captured"
    /\ UNCHANGED <<files, messages, error, run_pathways, kegg_data, files_read, report, pathviews, idle>>

\* Mutant: the messages are sent only when the script has succeeded.
emit_if_succeeded ==
    /\ pc = "captured"
    /\ messages' = IF returncode = 0
                   THEN messages \o emit_messages(ERROR_START, ERROR_END, "error", stdout)
                                 \o emit_messages(WARNING_START, WARNING_END, "warning", stdout)
                   ELSE messages
    /\ pc' = "emitted"
    /\ UNCHANGED <<files, returncode, stdout, error, run_pathways, kegg_data, files_read, report, pathviews, idle>>

\* run_rscript: the in-band errors, then the in-band warnings, are sent.
emit ==
    /\ pc = "captured"
    /\ messages' = messages \o emit_messages(ERROR_START, ERROR_END, "error", stdout)
                            \o emit_messages(WARNING_START, WARNING_END, "warning", stdout)
    /\ pc' = "emitted"
    /\ UNCHANGED <<files, returncode, stdout, error, run_pathways, kegg_data, files_read, report, pathviews, idle>>

\* run_rscript: a non-zero exit code raises, and nothing catches it.
check_returncode ==
    /\ pc = "emitted"
    /\ IF returncode # 0
       THEN error' = RuntimeError(returncode) /\ pc' = "raised"
       ELSE error' = error /\ pc' = "rscript_done"
    /\ UNCHANGED <<files, returncode, stdout, messages, run_pathways, kegg_data, files_read, report, pathviews, idle>>

EmptyDict == [keys |-> {}]

\* Mutant: a missing table leaves an empty dict, not None.
parse_table_never_none ==
    /\ pc = "rscript_done"
    /\ files_read' = IF TABLE \in files THEN files_read \cup {TABLE} ELSE files_read
    /\ kegg_data' = EmptyDict
    /\ pc' = "table_done"
    /\ UNCHANGED <<files, returncode, stdout, messages, error, run_pathways, report, pathviews, idle>>

\* The try block: the table is parsed, or it is missing and kegg_data is None.
parse_table ==
    /\ pc = "rscript_done"
    /\ IF TABLE \in files
       THEN kegg_data' = EmptyDict /\ files_read' = files_read \cup {TABLE}
       ELSE kegg_data' = NoObject /\ files_read' = files_read
    /\ pc' = "table_done"
    /\ UNCHANGED <<files, returncode, stdout, messages, error, run_pathways, report, pathviews, idle>>

\* The pathways of the table; none when there is no table.
Remaining == IF TABLE \in files THEN run_pathways ELSE 0

\* Inside "if kegg_data is not None": the contrast table is read.
parse_contrast_csv ==
    /\ pc = "table_done"
    /\ kegg_data # NoObject
    /\ IF CONTRAST \in files
       THEN files_read' = files_read \cup {CONTRAST} /\ error' = error /\ pc' = "pathways"
       ELSE files_read' = files_read /\ error' = FileNotFoundError(CONTRAST) /\ pc' = "raised"
    /\ UNCHANGED <<files, returncode, stdout, messages, run_pathways, kegg_data, report, pathviews, idle>>

\* One turn of the loop over the pathways: the image and its XML are read,
\* the image is moved and listed in pathviews.
parse_gene_groups_of_pathway ==
    /\ pc = "pathways"
    /\ pathviews < Remaining
    /\ IF PATHVIEW \notin files
       THEN /\ files_read' = files_read
            /\ error' = FileNotFoundError(PATHVIEW)
            /\ pathviews' = pathviews
            /\ pc' = "raised"
       ELSE IF XML \notin files
       THEN /\ files_read' = files_read \cup {PATHVIEW}
            /\ error' = FileNotFoundError(XML)
            /\ pathviews' = pathviews
            /\ pc' = "raised"
       ELSE /\ files_read' = files_read \cup {PATHVIEW, XML}
            /\ error' = error
            /\ pathviews' = pathviews + 1
            /\ pc' = "pathways"
    /\ UNCHANGED <<files, returncode, stdout, messages, run_pathways, kegg_data, report, idle>>

\* After the loop: the gene sets are read and the five keys are set.
fill_kegg_data ==
    /\ pc = "pathways"
    /\ pathviews = Remaining
    /\ IF GENESETS \in files
       THEN /\ files_read' = files_read \cup {GENESETS}
            /\ kegg_data' = [keys |-> kegg_data.keys \cup KeggKeys]
            /\ error' = error
            /\ pc' = "kegg_done"
       ELSE /\ files_read' = files_read
            /\ kegg_data' = kegg_data
            /\ error' = FileNotFoundError(GENESETS)
            /\ pc' = "raised"
    /\ UNCHANGED <<files, returncode, stdout, messages, run_pathways, report, pathviews, idle>>

\* create_report: the data handed to the template.
ReportData(kegg) ==
    IF kegg # NoObject
    THEN [keys |-> {"reportName"} \cup kegg.keys \cup {"showKEGG"}, showKEGG |-> TRUE]
    ELSE [keys |-> {"reportName", "showKEGG"}, showKEGG |-> FALSE]

\* create_report and the return of the results directory.
create_report ==
    /\ \/ pc = "table_done" /\ kegg_data = NoObject
       \/ pc = "kegg_done"
    /\ report' = ReportData(kegg_data)
    /\ pc' = "done"
    /\ UNCHANGED <<files, returncode, stdout, messages, error, run_pathways, kegg_data, files_read, pathviews, idle>>

NextRun ==
    \/ run_and_capture_output
    \/ emit
    \/ check_returncode
    \/ parse_table
    \/ parse_contrast_csv
    \/ parse_gene_groups_of_pathway
    \/ fill_kegg_data
    \/ create_report

(***************************************************************************)
(* Specifications: one per function, the others idle.                      *)
(***************************************************************************)
InitSpecEntry == InitEntry /\ IdleJs /\ IdleTable /\ IdleGenesets /\ IdleRun

InitSpecGroups == InitGroups /\ IdleJs /\ IdleTable /\ IdleGenesets /\ IdleRun

InitSpecJs == InitJs /\ IdleLoop /\ IdleTable /\ IdleGenesets /\ IdleRun

InitSpecTable == InitTable /\ IdleLoop /\ IdleJs /\ IdleGenesets /\ IdleRun

InitSpecGenesets == InitGenesets /\ IdleLoop /\ IdleJs /\ IdleTable /\ IdleRun

InitSpecRun == InitRun /\ IdleLoop /\ IdleJs /\ IdleTable /\ IdleGenesets

SpecEntry == InitSpecEntry /\ [][NextLoop]_vars

SpecGroups == InitSpecGroups /\ [][NextLoop]_vars

SpecJs == InitSpecJs /\ [][NextJs]_vars

SpecTable == InitSpecTable /\ [][NextTable]_vars

SpecGenesets == InitSpecGenesets /\ [][NextGenesets]_vars

SpecRun == InitSpecRun /\ [][NextRun]_vars

(***************************************************************************)
(* What the claims speak of.                                               *)
(***************************************************************************)
\* The entry the loop body has just handled.
Current == xmldoc[i]

\* The loop body built the dict "genes" for the current entry.
Built == i >= 1 /\ stage \in {"dropped", "viewed"}

Last(s) == s[Len(s)]

Front(s) == SubSeq(s, 1, Len(s) - 1)

Range(s) == {s[n] : n \in 1..Len(s)}

\* The ids the lookup knows: those that have a symbol at the same index.
KnownIds == {pathway.core_entrez_ids[n] :
                n \in 1..Min(Len(pathway.core_entrez_ids), Len(pathway.core_enriched_genes))}

\* The entry-name tokens that carry the species prefix and a known id.
CoreTokens(entry) ==
    SelectSeq(SplitBy(entry.name, SP),
              LAMBDA t : /\ StartsWith(t, SpeciesPrefix(species))
                         /\ Drop(t, Len(SpeciesPrefix(species))) \in KnownIds)

SymbolOfId(id) ==
    pathway.core_enriched_genes[
        CHOOSE n \in 1..Min(Len(pathway.core_entrez_ids), Len(pathway.core_enriched_genes)) :
            /\ pathway.core_entrez_ids[n] = id
            /\ \A m \in (n + 1)..Min(Len(pathway.core_entrez_ids), Len(pathway.core_enriched_genes)) :
                  pathway.core_entrez_ids[m] # id]

CoreSymbols(entry) ==
    [n \in 1..Len(CoreTokens(entry)) |->
        SymbolOfId(Drop(CoreTokens(entry)[n], Len(SpeciesPrefix(species))))]

RECURSIVE FirstOccurrences(_)
\* s without the repetitions of an earlier element.
FirstOccurrences(s) ==
    IF Len(s) = 0 THEN <<>>
    ELSE LET f == FirstOccurrences(Front(s))
         IN  IF Last(s) \in Range(Front(s)) THEN f ELSE Append(f, Last(s))

\* The display list of the graphics element, the marker "..." removed.
DisplaySymbols(entry) ==
    IF entry.graphics.name = None THEN <<>>
    ELSE SplitBy(RemoveSuffix(entry.graphics.name, ELLIPSIS), COMMA_SP)

Marked(syms, flag) == [n \in 1..Len(syms) |-> [k |-> syms[n], v |-> flag]]

ExpectedGenes(entry) ==
    LET core == FirstOccurrences(CoreSymbols(entry))
        shown == FirstOccurrences(
                     SelectSeq(DisplaySymbols(entry),
                               LAMBDA t : t \in contrast_genes /\ t \notin Range(core)))
    IN  Marked(core, TRUE) \o Marked(shown, FALSE)

Truncated(entry) ==
    /\ Qualifies(entry)
    /\ entry.graphics.name # None
    /\ EndsWith(entry.graphics.name, ELLIPSIS)

\* The last token of a truncated display list, as written and without the marker.
LastShown(entry) == RemoveSuffix(Last(SplitBy(entry.graphics.name, COMMA_SP)), ELLIPSIS)

EarlierShown(entry) == Range(Front(SplitBy(entry.graphics.name, COMMA_SP)))

(***************************************************************************)
(* C1 as stated: the last token of a display list that ends with "..." is  *)
(* discarded, so its text is in the gene set only if the entry name made   *)
(* it a core gene or an earlier token of the list names it too.            *)
(***************************************************************************)
C1_TruncatedTokenDiscarded ==
    (Built /\ Truncated(Current) /\ LastShown(Current) \in Keys(genes))
        => \/ Lookup(genes, LastShown(Current))
           \/ LastShown(Current) \in EarlierShown(Current)

(***************************************************************************)
(* C1 amended: only the marker "..." is removed; the last token's text is  *)
(* a symbol like the others, in the gene set iff it is a core symbol of    *)
(* the entry or a contrast gene, and marked core=false when the display    *)
(* list alone brought it in.  The scenario entry yields {A: true,          *)
(* B: false} when the contrast genes are {A, B}, and {A: true, B: false,   *)
(* C: false} when they are {A, B, C}.                                      *)
(***************************************************************************)
C1_MarkerStrippedTokenKept ==
    (Built /\ Truncated(Current)) =>
        /\ LastShown(Current) \in Keys(genes)
              <=> \/ LastShown(Current) \in Range(CoreSymbols(Current))
                  \/ LastShown(Current) \in contrast_genes
        /\ (LastShown(Current) \in Keys(genes) /\ LastShown(Current) \notin Range(CoreSymbols(Current)))
              => ~Lookup(genes, LastShown(Current))
        /\ (Current = ScenarioEntry /\ pathway.core_entrez_ids = <<Id1>> /\ contrast_genes = {SymA, SymB})
              => genes = <<[k |-> SymA, v |-> TRUE], [k |-> SymB, v |-> FALSE]>>
        /\ (Current = ScenarioEntry /\ pathway.core_entrez_ids = <<Id1>> /\ contrast_genes = {SymA, SymB, SymC})
              => genes = <<[k |-> SymA, v |-> TRUE], [k |-> SymB, v |-> FALSE], [k |-> SymC, v |-> FALSE]>>

\* The scenario entry, with C among the contrast genes: C is in the gene set.
C1_Witness ==
    /\ Built /\ Current = ScenarioEntry
    /\ pathway.core_entrez_ids = <<Id1>>
    /\ contrast_genes = {SymA, SymB, SymC}
    /\ SymC \in Keys(genes)

(***************************************************************************)
(* C4: the gene set of a qualifying entry is the core symbols of its name  *)
(* tokens (species prefix, id in the lookup) in order of first occurrence, *)
(* marked true, then the display-list symbols that are contrast genes and  *)
(* not yet in the set, in list order, marked false; nothing else, and no   *)
(* true mark is overwritten.                                               *)
(***************************************************************************)
C4_GeneSetExact == Built => genes = ExpectedGenes(Current)

\* A core gene is shown again in the display list and is a contrast gene;
\* a second, non-core contrast gene follows it.
C4_Witness ==
    /\ Built
    /\ Len(genes) >= 2
    /\ genes[1].v /\ ~genes[Len(genes)].v
    /\ genes[1].k \in Range(DisplaySymbols(Current)) \cap contrast_genes
    /\ Len(CoreTokens(Current)) = 2 /\ Len(FirstOccurrences(CoreSymbols(Current))) = 1

(***************************************************************************)
(* C7: an emitted rectangle is the native one scaled by 800 / image width  *)
(* on both axes, its centre moved to the top-left corner by half of the    *)
(* scaled width and height.  With exact fractions n/d:                     *)
(*   width  = 800 * w / W          x = 800 * (2 * x0 - w) / (2 * W)        *)
(*   height = 800 * h / W          y = 800 * (2 * y0 - h) / (2 * W)        *)
(***************************************************************************)
Rectangle == stage = "viewed" /\ Current.graphics.type # "line"

C7_UniformScale ==
    Rectangle =>
        LET g == Current.graphics
            W == pathview_image_width
        IN  /\ view # NoObject
            /\ view.width.n * W = PATHVIEW_IMAGE_WIDTH * g.width * view.width.d
            /\ view.height.n * W = PATHVIEW_IMAGE_WIDTH * g.height * view.height.d
            /\ view.x.n * 2 * W = PATHVIEW_IMAGE_WIDTH * (2 * g.x - g.width) * view.x.d
            /\ view.y.n * 2 * W = PATHVIEW_IMAGE_WIDTH * (2 * g.y - g.height) * view.y.d
            /\ Last(gene_groups).view = view

\* A shape that is not a rectangle either, of odd width, scaled down.
C7_Witness ==
    /\ Rectangle
    /\ Current.graphics.type = "circle"
    /\ pathview_image_width = 1000
    /\ Len(gene_groups) = 2

(***************************************************************************)
(* C8: no emitted group is empty, and the entries handled so far that      *)
(* resolve no gene have produced no group: there are exactly as many       *)
(* groups as qualifying entries, not lines, that resolve a gene.           *)
(***************************************************************************)
ResolvesGene(entry) ==
    \/ CoreTokens(entry) # <<>>
    \/ Range(DisplaySymbols(entry)) \cap contrast_genes # {}

C8_NoEmptyGroup ==
    /\ \A n \in 1..Len(gene_groups) : Len(gene_groups[n].genes) >= 1
    /\ Len(gene_groups) =
          Cardinality({n \in 1..i : /\ Qualifies(xmldoc[n])
                                    /\ xmldoc[n].graphics.type # "line"
                                    /\ ResolvesGene(xmldoc[n])})
    /\ stage = "dropped" => ~ResolvesGene(Current)

\* An entry without genes was dropped after a group was emitted.
C8_Witness ==
    /\ stage = "dropped"
    /\ Current.graphics.type # "line"
    /\ Len(gene_groups) = 1

(***************************************************************************)
(* C9: a gene entry whose graphics element is a line adds no group, and    *)
(* the groups are those of the document with its line entries taken out,   *)
(* in the same order.                                                      *)
(***************************************************************************)
IsLineEntry(entry) == entry.graphics # NoObject /\ entry.graphics.type = "line"

WithoutLines(doc) == SelectSeq(doc, LAMBDA e : ~IsLineEntry(e))

C9_LineEntrySkipped ==
    gene_groups = parse_gene_groups(WithoutLines(Take(xmldoc, i)), pathway, contrast_genes,
                                    species, pathview_image_width)

\* A line entry that has genes was handled between the start and a group.
C9_Witness ==
    /\ i = 2
    /\ IsLineEntry(xmldoc[1]) /\ Qualifies(xmldoc[1]) /\ ResolvesGene(xmldoc[1])
    /\ Len(gene_groups) = 1

(***************************************************************************)
(* C2: no double quote of the output of js_injectable can end a            *)
(* surrounding double-quoted string: each is preceded by an odd number of  *)
(* consecutive backslashes.                                                *)
(***************************************************************************)
RECURSIVE BackslashesBefore(_, _)
\* The length of the run of backslashes that ends right before position k.
BackslashesBefore(text, k) ==
    IF k > 1 /\ <<text[k - 1]>> = BACKSLASH THEN 1 + BackslashesBefore(text, k - 1) ELSE 0

C2_EveryQuoteEscaped ==
    injected # None =>
        \A k \in 1..Len(injected) :
            <<injected[k]>> = QUOTE => BackslashesBefore(injected, k) % 2 = 1

(***************************************************************************)
(* C3 as stated: for every row the two lists have equal length, and the    *)
(* lookup zipped from them covers every core gene.                         *)
(***************************************************************************)
C3_EqualLengthEveryRow ==
    \A n \in 1..Len(pathways) :
        /\ Len(pathways[n].core_enriched_genes) = Len(pathways[n].core_entrez_ids)
        /\ {kv.v : kv \in Range(entrez_id_to_gene(pathways[n]))} = Range(pathways[n].core_enriched_genes)

(***************************************************************************)
(* C3 amended: for every row whose coreEnrichedGenes field has as many     *)
(* spaces as its coreEntrezIDs field has slashes, the two lists have equal *)
(* length, item n of each is the n-th item of its field (joining the       *)
(* lists gives the fields back), and the lookup maps the id at index n to  *)
(* the symbol at the last index that holds the same id: to its own symbol, *)
(* covering every core gene, when the ids are distinct.                    *)
(***************************************************************************)
CountOf(text, c) == Cardinality({k \in 1..Len(text) : <<text[k]>> = c})

WordCount(words, w) == Cardinality({k \in 1..Len(words) : words[k] = w})

BalancedRow(row) == CountOf(row.coreEnrichedGenes, SP) = CountOf(row.coreEntrezIDs, SLASH)

Distinct(s) == \A m, n \in 1..Len(s) : s[m] = s[n] => m = n

C3_EqualLengthBalancedRows ==
    \A n \in 1..Len(pathways) :
        LET p == pathways[n]
            row == table_rows[n]
            table == entrez_id_to_gene(p)
        IN  BalancedRow(row) =>
                /\ Len(p.core_enriched_genes) = Len(p.core_entrez_ids)
                /\ Len(p.core_enriched_genes) = CountOf(row.coreEnrichedGenes, SP) + 1
                /\ JoinBy(p.core_enriched_genes, SP) = row.coreEnrichedGenes
                /\ JoinBy(p.core_entrez_ids, SLASH) = row.coreEntrezIDs
                /\ Keys(table) = Range(p.core_entrez_ids)
                /\ \A m \in 1..Len(p.core_entrez_ids) :
                      (\A k \in (m + 1)..Len(p.core_entrez_ids) : p.core_entrez_ids[k] # p.core_entrez_ids[m])
                          => Lookup(table, p.core_entrez_ids[m]) = p.core_enriched_genes[m]
                /\ Distinct(p.core_entrez_ids)
                      => {kv.v : kv \in Range(table)} = Range(p.core_enriched_genes)

\* A row of two genes and two ids was parsed, after another row.
C3_Witness ==
    /\ Len(pathways) = 2
    /\ BalancedRow(table_rows[2])
    /\ pathways[2].core_enriched_genes = <<SymA, SymB>>
    /\ pathways[2].core_entrez_ids = <<Id1, Id2>>

(***************************************************************************)
(* C10: the lists read from the gene-set file.  A header line switches the *)
(* section and is not stored; any other line goes to the list of the       *)
(* section it lies in, stripped (and split at spaces under ENTREZIDS and   *)
(* NAMES); a line before the first header goes nowhere.                    *)
(***************************************************************************)
IsHeader(line) ==
    StartsWith(line, PATHWAYIDS) \/ StartsWith(line, ENTREZIDS) \/ StartsWith(line, NAMES)

HeaderOf(line) == CHOOSE h \in {PATHWAYIDS, ENTREZIDS, NAMES} : StartsWith(line, h)

RECURSIVE SectionAfter(_)
\* The section in force after these lines: the header of the last header line.
SectionAfter(lines) ==
    IF Len(lines) = 0 THEN None
    ELSE IF IsHeader(Last(lines)) THEN HeaderOf(Last(lines))
    ELSE SectionAfter(Front(lines))

RECURSIVE LinesOf(_, _)
\* The data lines of the file that lie in section h, in file order.
LinesOf(lines, h) ==
    IF Len(lines) = 0 THEN <<>>
    ELSE IF ~IsHeader(Last(lines)) /\ SectionAfter(Front(lines)) = h
         THEN Append(LinesOf(Front(lines), h), Last(lines))
         ELSE LinesOf(Front(lines), h)

Scalars(lines) == [n \in 1..Len(lines) |-> Strip(lines[n])]

TokenLists(lines) == [n \in 1..Len(lines) |-> SplitBy(Strip(lines[n]), SP)]

ListsAsSectioned ==
    /\ pathway_ids = Scalars(LinesOf(genesets_file, PATHWAYIDS))
    /\ entrez_ids = TokenLists(LinesOf(genesets_file, ENTREZIDS))
    /\ gene_names = TokenLists(LinesOf(genesets_file, NAMES))

MappingBuilt == gs_pc = "returned"

(***************************************************************************)
(* C10 as stated: the result maps the i-th pathway id to the pair of the   *)
(* i-th ENTREZIDS line and the i-th NAMES line, and holds exactly the      *)
(* pathway ids that are relevant.                                          *)
(***************************************************************************)
C10_IthIdToIthPair ==
    MappingBuilt =>
        /\ ListsAsSectioned
        /\ Keys(mapping.items) = Range(pathway_ids) \cap relevant_pathway_ids
        /\ \A n \in 1..Len(pathway_ids) :
              pathway_ids[n] \in relevant_pathway_ids =>
                  /\ n <= Min(Len(entrez_ids), Len(gene_names))
                  /\ pathway_ids[n] \in Keys(mapping.items)
                  /\ Lookup(mapping.items, pathway_ids[n]) = <<entrez_ids[n], gene_names[n]>>

(***************************************************************************)
(* C10 amended: the lists are read as stated.  With N the least of the     *)
(* three list lengths, the result holds exactly the relevant ids among     *)
(* the first N pathway ids, and maps each to the pair (ENTREZIDS line,     *)
(* NAMES line) at the last index up to N that holds this id: to the i-th   *)
(* pair for the i-th id when the first N ids are distinct.                 *)
(***************************************************************************)
Paired == Min(Len(pathway_ids), Min(Len(entrez_ids), Len(gene_names)))

C10_LastPairedIndexWins ==
    /\ gs_pc # "open" => ListsAsSectioned
    /\ MappingBuilt =>
          /\ Keys(mapping.items) = {pathway_ids[n] : n \in 1..Paired} \cap relevant_pathway_ids
          /\ Distinct([n \in 1..Len(mapping.items) |-> mapping.items[n].k])
          /\ \A n \in 1..Paired :
                (/\ pathway_ids[n] \in relevant_pathway_ids
                 /\ \A m \in (n + 1)..Paired : pathway_ids[m] # pathway_ids[n])
                    => Lookup(mapping.items, pathway_ids[n]) = <<entrez_ids[n], gene_names[n]>>

\* A line before the first header, a section entered twice, two ids mapped.
C10_Witness ==
    /\ MappingBuilt
    /\ ~IsHeader(genesets_file[1])
    /\ pathway_ids = <<<<"a">>, <<"b", " ", "c">>>>
    /\ Len(mapping.items) = 2
    /\ Lookup(mapping.items, <<"b", " ", "c">>) = <<<<<<"b">>, <<"c">>>>, <<<<"a">>>>>>

(***************************************************************************)
(* C5: only the exit code of the script decides whether run_rscript        *)
(* fails.  Once the code has been inspected, a RuntimeError has been       *)
(* raised iff it is not 0, and its message holds the code; every in-band   *)
(* error and warning of the output has been sent before that, whatever     *)
(* the code; after a non-zero code no report is created.                   *)
(***************************************************************************)
Inspected == pc \notin {"start", "captured", "emitted"}

Contains(text, part) == Occurrences(text, part) # {}

\* The in-band messages of the output: the errors, then the warnings.
InBand ==
    emit_messages(ERROR_START, ERROR_END, "error", stdout)
        \o emit_messages(WARNING_START, WARNING_END, "warning", stdout)

IsRuntimeError == error # NoObject /\ error.type = "RuntimeError"

C5_ExitCodeAloneGates ==
    /\ Inspected => (IsRuntimeError <=> returncode # 0)
    /\ ~Inspected => error = NoObject
    /\ IsRuntimeError =>
          /\ Contains(error.message, SignedIntStr(returncode))
          /\ pc = "raised"
          /\ report = NoObject
          /\ files_read = {}
    /\ pc \notin {"start", "captured"} =>
          /\ messages = InBand
          /\ Len(messages) = Len(SelectSeq(messages, LAMBDA m : m.type = "error"))
                                + Len(SelectSeq(messages, LAMBDA m : m.type = "warning"))
          /\ Len(SelectSeq(messages, LAMBDA m : m.type = "error")) <= WordCount(stdout, ERROR_END)
          /\ (\E m, n \in 1..Len(stdout) : m < n /\ stdout[m] = ERROR_START /\ stdout[n] = ERROR_END)
                => \E m \in 1..Len(messages) : messages[m].type = "error"
          /\ (\E m, n \in 1..Len(stdout) : m < n /\ stdout[m] = WARNING_START /\ stdout[n] = WARNING_END)
                => \E m \in 1..Len(messages) : messages[m].type = "warning"
          /\ stdout = <<WARNING_START, "w1", WARNING_END, ERROR_START, "e1", "\n", "e2", ERROR_END, "text">>
                => /\ Len(messages) = 2
                   /\ messages[1].type = "error" /\ messages[1].body = <<"e1", "\n", "e2">>
                   /\ messages[2].type = "warning" /\ messages[2].body = <<"w1">>
    /\ pc = "done" => returncode = 0

\* The script reported an error in band and exited with 0: the report is made.
C5_Witness ==
    /\ pc = "done"
    /\ report # NoObject
    /\ \E n \in 1..Len(messages) : messages[n].type = "error"
    /\ \E n \in 1..Len(messages) : messages[n].type = "warning"

(***************************************************************************)
(* C6: with exit code 0 and no pathway table the task still ends with a    *)
(* report, whose data has showKEGG false and none of the pathway keys,     *)
(* and none of the other inputs is read; with the table, a report has      *)
(* showKEGG true and all the pathway keys.  The table's existence alone    *)
(* selects between the two.                                                *)
(***************************************************************************)
KeggFiles == {CONTRAST, PATHVIEW, XML, GENESETS}

C6_TableAloneSelects ==
    /\ report # NoObject =>
          /\ report.showKEGG <=> TABLE \in files
          /\ "showKEGG" \in report.keys /\ "reportName" \in report.keys
          /\ TABLE \in files => KeggKeys \subseteq report.keys
          /\ TABLE \notin files => report.keys \cap KeggKeys = {}
    /\ (Inspected /\ returncode = 0 /\ TABLE \notin files) =>
          /\ error = NoObject
          /\ files_read = {}
          /\ pc # "done" => ENABLED create_report \/ ENABLED parse_table
          /\ pc = "done" => report # NoObject

\* No table and none of the other files either: the report is there.
C6_Witness ==
    /\ pc = "done"
    /\ files = {}
    /\ report # NoObject
    /\ ~report.showKEGG

====
